---------------------------- MODULE Spec2Model ----------------------------
(***************************************************************************)
(* proteld: the outbound Protel dialer daemon (src/proteld.c).             *)
(*                                                                         *)
(* The module models                                                       *)
(*   - the payload validator data_done() with autocorrect() and the        *)
(*     corruption check of handler(), as operators over byte sequences;    *)
(*   - handler(), one thread per accepted connection, with its buffer,     *)
(*     its reset counter and the unsynchronised statistics counters;       *)
(*   - the accept loop of main(), which hands the descriptor to the        *)
(*     thread through the address of its local variable sfd.               *)
(*                                                                         *)
(* Six specifications share the definitions:                               *)
(*   Spec              main() and its concurrent handler threads;          *)
(*   AcceptSpec        the same with peers that send nothing;              *)
(*   SessionSpec       one handler thread in isolation, fed a richer       *)
(*                     stream;                                             *)
(*   NoisySessionSpec  the same thread on a line that garbles printouts;   *)
(*   FillSpec          the same thread, scheduled fairly, fed more than    *)
(*                     its buffer holds;                                   *)
(*   ValidatorSpec     the pure functions applied to a bounded set of      *)
(*                     buffers.                                            *)
(*                                                                         *)
(* Bytes are the integers 0..255.  A C buffer of n valid bytes followed by *)
(* the terminating NUL that handler() writes is the sequence of its n      *)
(* bytes; C offset i is index i + 1.                                       *)
(***************************************************************************)
EXTENDS Integers, Sequences, FiniteSets, TLC

VARIABLES
    mpc,            \* main(): "accept", "create", "usleep", "exited"
    sfd,            \* main()'s local sfd, whose address every thread gets
    nconn,          \* connections accepted so far; connection c has descriptor c
    nthreads,       \* threads created so far
    calls_total,    \* static int calls_total
    calls_success,  \* static int calls_success
    log_to_file,    \* static int log_to_file (set by -f, read-only afterwards)
    report,         \* what sigint_handler printed, <<>> before
    th,             \* th[t]: the locals and the position of handler thread t
    conn,           \* conn[c]: the connection's bytes in flight, and its closes
    fin,            \* ValidatorSpec: the input buffer
    fmut,           \* ValidatorSpec: bytes of the input the line may still garble
    fpc,            \* ValidatorSpec: which function has been applied
    fout            \* ValidatorSpec: what it returned

vars == <<mpc, sfd, nconn, nthreads, calls_total, calls_success, log_to_file,
          report, th, conn, fin, fmut, fpc, fout>>

procvars == <<mpc, sfd, nconn, nthreads, calls_total, calls_success,
              log_to_file, report, th, conn>>

fnvars == <<fin, fmut, fpc, fout>>

---------------------------------------------------------------------------
(* Program constants *)

DATA_LENGTH == 54

DATA_STARS == 8

BufSize == 512

SkipFirst == 30

LastStarOffset == 53

IdLen == 10

NUL == 0

Star == 42

CharD == 68

(* Bounds of the model *)

\* connections main() accepts in Spec
MaxConns == 2

\* segments a peer sends on one connection in SessionSpec
MaxSegs == 2

\* bytes substituted in a base buffer of ValidatorSpec
MaxMut == 1

\* length of the arbitrary preambles of ValidatorSpec
MaxPre == 2

---------------------------------------------------------------------------
(* Characters and C strings *)

Min(a, b) == IF a < b THEN a ELSE b

isdigit(x) == x \in 48..57

is_d(x) == x = CharD

\* C offset i of data; the byte after the last one is the terminating NUL
At(data, i) == IF i + 1 \in 1..Len(data) THEN data[i + 1] ELSE NUL

\* strlen of the NUL-terminated string data
strlen(data) ==
    LET Z == {i \in 1..Len(data) : data[i] = NUL}
    IN  IF Z = {} THEN Len(data)
        ELSE (CHOOSE i \in Z : \A j \in Z : i <= j) - 1

\* memchr(buf, c, len): the index of the first c among the first len bytes, 0 for NULL
memchr(buf, c, len) ==
    LET S == {i \in 1..len : buf[i] = c}
    IN  IF S = {} THEN 0 ELSE CHOOSE i \in S : \A j \in S : i <= j

\* memmem(hay, needle) != NULL
memmem(hay, needle) ==
    \E i \in 1..(Len(hay) - Len(needle) + 1) :
        SubSeq(hay, i, i + Len(needle) - 1) = needle

---------------------------------------------------------------------------
(* autocorrect() *)

Cond(name, x) ==
    CASE name = "isdigit" -> isdigit(x)
      [] name = "is_d"    -> is_d(x)
      [] OTHER            -> TRUE

\* A rule table that also repairs the 'D' after offset 17 (not the code's)
RulesAlsoD ==
    << [pos |-> 11, c |-> Star, condl |-> "isdigit", condr |-> "isdigit"],
       [pos |-> 17, c |-> Star, condl |-> "isdigit", condr |-> "is_d"],
       [pos |-> 18, c |-> CharD, condl |-> "TRUE", condr |-> "is_d"],
       [pos |-> 24, c |-> Star, condl |-> "isdigit", condr |-> "isdigit"],
       [pos |-> 29, c |-> Star, condl |-> "isdigit", condr |-> "isdigit"],
       [pos |-> 33, c |-> Star, condl |-> "isdigit", condr |-> "isdigit"],
       [pos |-> 47, c |-> Star, condl |-> "isdigit", condr |-> "isdigit"],
       [pos |-> 53, c |-> Star, condl |-> "isdigit", condr |-> "TRUE"] >>

\* The seven AUTOCORRECT(pos, c, condl, condr) uses, in the order of the code
Rules ==
    << [pos |-> 11, c |-> Star, condl |-> "isdigit", condr |-> "isdigit"],
       [pos |-> 17, c |-> Star, condl |-> "isdigit", condr |-> "is_d"],
       [pos |-> 24, c |-> Star, condl |-> "isdigit", condr |-> "isdigit"],
       [pos |-> 29, c |-> Star, condl |-> "isdigit", condr |-> "isdigit"],
       [pos |-> 33, c |-> Star, condl |-> "isdigit", condr |-> "isdigit"],
       [pos |-> 47, c |-> Star, condl |-> "isdigit", condr |-> "isdigit"],
       [pos |-> 53, c |-> Star, condl |-> "isdigit", condr |-> "TRUE"] >>

\* A macro that does not look at the left neighbour (not the code's)
AUTOCORRECT_no_left(data, r) ==
    IF At(data, r.pos) # r.c /\ Cond(r.condr, At(data, r.pos + 1))
    THEN [data EXCEPT ![r.pos + 1] = r.c]
    ELSE data

\* The macro AUTOCORRECT applied to data with rule r
AUTOCORRECT(data, r) ==
    IF At(data, r.pos) # r.c
       /\ Cond(r.condl, At(data, r.pos - 1))
       /\ Cond(r.condr, At(data, r.pos + 1))
    THEN [data EXCEPT ![r.pos + 1] = r.c]
    ELSE data

RECURSIVE ApplyRules(_, _)
ApplyRules(data, k) ==
    IF k > Len(Rules) THEN data
    ELSE ApplyRules(AUTOCORRECT(data, Rules[k]), k + 1)

autocorrect(data) ==
    IF strlen(data) <= DATA_LENGTH THEN data ELSE ApplyRules(data, 1)

---------------------------------------------------------------------------
(* data_done() *)

\* if (len < DATA_LENGTH), on the length of the whole buffer
TooShort(len) == len < DATA_LENGTH

\* An off-by-one test that rejects a payload of exactly DATA_LENGTH bytes (not the code's)
PayloadTooSmallOffByOne(len) == len <= DATA_LENGTH

\* An off-by-one test that lets a payload of DATA_LENGTH - 1 bytes through (not the code's)
PayloadTooSmallLoose(len) == len < DATA_LENGTH - 1

\* if (len < DATA_LENGTH), on the length from the first delimiter
PayloadTooSmall(len) == len < DATA_LENGTH

\* Returns [ret, buf]: the int returned and the buffer as autocorrect left it
data_done(buf, len) ==
    IF TooShort(len) THEN [ret |-> 0, buf |-> buf]
    ELSE
      LET start == memchr(buf, Star, len) IN
      IF start = 0 THEN [ret |-> 0, buf |-> buf]
      ELSE
        LET len2 == len - (start - 1) IN
        IF PayloadTooSmall(len2) THEN [ret |-> 0, buf |-> buf]
        ELSE
          LET data  == autocorrect(SubSeq(buf, start, len))
              nbuf  == SubSeq(buf, 1, start - 1) \o data
              n     == strlen(data)
              stars == Cardinality({i \in 1..n : data[i] = Star})
          IN  IF stars < DATA_STARS - 1 THEN [ret |-> 0, buf |-> nbuf]
              ELSE IF n < LastStarOffset THEN [ret |-> 0, buf |-> nbuf]
              ELSE [ret |-> 1, buf |-> nbuf]

---------------------------------------------------------------------------
(* The corruption check of handler() *)

\* A check that forgets to skip the preamble (not the code's)
is_corrupted_from0(buf, bytes_read) ==
    /\ bytes_read > DATA_LENGTH
    /\ LET hay == SubSeq(buf, 1, bytes_read)
       IN  memmem(hay, <<1, 0, 0>>) \/ memmem(hay, <<0, 0, 0>>)

\* bytes_read > DATA_LENGTH && (memmem(buf + 30, ...) || memmem(buf + 30, ...))
is_corrupted(buf, bytes_read) ==
    /\ bytes_read > DATA_LENGTH
    /\ LET hay == SubSeq(buf, SkipFirst + 1, bytes_read)
       IN  memmem(hay, <<1, 0, 0>>) \/ memmem(hay, <<0, 0, 0>>)

---------------------------------------------------------------------------
(* Byte streams used as inputs *)

\* The printout of the comment in handler(): *3115552368*43125*DD8822*1234*032*2312237122028*37090*
ValidPayload ==
    << 42, 51, 49, 49, 53, 53, 53, 50, 51, 54, 56, 42, 52, 51, 49, 50, 53, 42,
       68, 68, 56, 56, 50, 50, 42, 49, 50, 51, 52, 42, 48, 51, 50, 42, 50, 51,
       49, 50, 50, 51, 55, 49, 50, 50, 48, 50, 56, 42, 51, 55, 48, 57, 48, 42 >>

\* TC! [0] [0] [0] [144] [0] [0] [0] [0]
RealPre == << 84, 67, 33, 0, 0, 0, 144, 0, 0, 0, 0 >>

\* [1] [0] [0] [239], typical after a printout
Trailer == << 1, 0, 0, 239 >>

\* The printout with every delimiter but the first lost on the line
DegradedPayload ==
    [i \in 1..Len(ValidPayload) |->
        IF i > 1 /\ ValidPayload[i] = Star THEN 120 ELSE ValidPayload[i]]

\* NUL, SOH, '*', '5', 'D', 'x'
Alphabet == {0, 1, 42, 53, 68, 120}

SeqsUpTo(A, n) == UNION {[1..k -> A] : k \in 0..n}

JunkOfLen(n) == [i \in 1..n |-> 120]

\* s with m written over it at C offset p, cut at the end of s
Overwrite(s, p, m) ==
    [i \in 1..Len(s) |-> IF i - p \in 1..Len(m) THEN m[i - p] ELSE s[i]]

\* The buffers of which the line garbles up to MaxMut bytes
MutBases ==
    { RealPre \o ValidPayload,
      DegradedPayload \o Trailer }

FamilyTrunc ==
    {SubSeq(s, 1, k) : s \in {RealPre \o ValidPayload \o Trailer},
                       k \in 0..(Len(RealPre) + Len(ValidPayload) + Len(Trailer))}

FamilyPre ==
    {p \o ValidPayload \o t :
        p \in SeqsUpTo(Alphabet \ {Star}, MaxPre) \cup {RealPre, JunkOfLen(100) \o RealPre},
        t \in {<<>>, Trailer}}

FamilyMarker ==
    {Overwrite(JunkOfLen(n), p, m) :
        n \in {DATA_LENGTH, DATA_LENGTH + 1, DATA_LENGTH + 6},
        p \in 0..(DATA_LENGTH + 5),
        m \in {<<1, 0, 0>>, <<0, 0, 0>>, <<0, 0>>, <<0, 1, 0>>}}

FnInputs == FamilyTrunc \cup FamilyPre \cup FamilyMarker

---------------------------------------------------------------------------
(* save_data() *)

NoSave == <<>>

\* A write that stops one byte short of len (not the code's)
save_data_short(buf, len, success) ==
    [ written   |-> SubSeq(buf, 1, len - 1),
      len       |-> len,
      success   |-> success,
      assert_ok |-> TRUE,
      id        |-> <<>> ]

\* What save_data is handed and what it derives from it: the bytes written,
\* whether the assertion held, and the identifier of the file name
\* ("%.*s" with precision 10 stops at a NUL)
save_data(buf, len, success) ==
    LET tmp  == memchr(buf, Star, len)
        rest == SubSeq(buf, tmp + 1, len)
    IN  [ written   |-> SubSeq(buf, 1, len),
          len       |-> len,
          success   |-> success,
          assert_ok |-> (success = 0 \/ tmp # 0),
          id        |-> IF success = 1 /\ tmp # 0
                        THEN SubSeq(rest, 1, Min(IdLen, strlen(rest)))
                        ELSE <<>> ]

---------------------------------------------------------------------------
(* The process: main() and its handler threads *)

Threads == 1..MaxConns

Conns == 1..MaxConns

IdleThread ==
    [ pc         |-> "idle",     \* where the thread is in handler()
      fd         |-> 0,
      buf        |-> <<>>,       \* the bytes_read valid bytes of buf
      bytes_read |-> 0,
      left       |-> 0,
      success    |-> 0,
      reset      |-> 0,
      reg        |-> 0,          \* the register of a counter's load and store
      state      |-> "NONE",     \* ACCUMULATING, SUCCESS, ABORTED, CLOSED
      intr       |-> FALSE,      \* the loop ended on an interrupted read
      conn_of    |-> 0,          \* the connection accepted for this thread
      rx         |-> <<>>,       \* every byte read so far
      since      |-> <<>>,       \* every byte read since the buffer was last discarded
      onebyte    |-> TRUE,       \* every read returned one byte
      discards   |-> 0,          \* times the buffer was discarded
      closes     |-> 0,          \* close(fd) calls made
      saved      |-> NoSave ]    \* what save_data was handed

IdleConn == [pending |-> <<>>, sent |-> 0, closes |-> 0]

\* A process whose threads outlive the return of main (not the code's)
running_after_exit == TRUE

\* main has not returned and exit has not been called
running == mpc # "exited"

\* accept() returns a new connection
main_accept ==
    /\ mpc = "accept"
    /\ nconn < MaxConns
    /\ nconn' = nconn + 1
    /\ sfd' = nconn + 1
    /\ mpc' = "create"
    /\ UNCHANGED <<nthreads, calls_total, calls_success, log_to_file, report,
                   th, conn, fnvars>>

\* accept() fails with EINTR: continue
main_accept_eintr ==
    /\ mpc = "accept"
    /\ sfd' = -1
    /\ UNCHANGED <<mpc, nconn, nthreads, calls_total, calls_success,
                   log_to_file, report, th, conn, fnvars>>

\* accept() fails otherwise: break, close(sock), main returns and the process ends
main_accept_fail ==
    /\ mpc = "accept"
    /\ sfd' = -1
    /\ mpc' = "exited"
    /\ UNCHANGED <<nconn, nthreads, calls_total, calls_success, log_to_file,
                   report, th, conn, fnvars>>

\* pthread_attr_setdetachstate fails: close(sfd), continue
main_detach_fail ==
    /\ mpc = "create"
    /\ conn' = [conn EXCEPT ![sfd].closes = @ + 1]
    /\ mpc' = "accept"
    /\ UNCHANGED <<sfd, nconn, nthreads, calls_total, calls_success,
                   log_to_file, report, th, fnvars>>

\* pthread_create(&thread, &attr, handler, &sfd) succeeds
main_create ==
    /\ mpc = "create"
    /\ nthreads' = nthreads + 1
    /\ th' = [th EXCEPT ![nthreads + 1] =
                 [IdleThread EXCEPT !.pc = "start", !.conn_of = sfd]]
    /\ mpc' = "usleep"
    /\ UNCHANGED <<sfd, nconn, calls_total, calls_success, log_to_file,
                   report, conn, fnvars>>

\* pthread_create fails: close(sfd), then the usleep
main_create_fail ==
    /\ mpc = "create"
    /\ conn' = [conn EXCEPT ![sfd].closes = @ + 1]
    /\ mpc' = "usleep"
    /\ UNCHANGED <<sfd, nconn, nthreads, calls_total, calls_success,
                   log_to_file, report, th, fnvars>>

\* usleep(100000) returns, whether or not the new thread has run
main_usleep ==
    /\ mpc = "usleep"
    /\ mpc' = "accept"
    /\ UNCHANGED <<sfd, nconn, nthreads, calls_total, calls_success,
                   log_to_file, report, th, conn, fnvars>>

\* SIGINT: print the two counters and exit
sigint_handler ==
    /\ running
    /\ report' = <<calls_total, calls_success>>
    /\ mpc' = "exited"
    /\ UNCHANGED <<sfd, nconn, nthreads, calls_total, calls_success,
                   log_to_file, th, conn, fnvars>>

---------------------------------------------------------------------------
(* handler() *)

\* A loop that gives up on the first corruption (not the code's)
reset_limit_reached_first(reset) == reset = 1

\* A loop that gives up on the third corruption (not the code's)
reset_limit_reached_late(reset) == reset = 3

\* if (++reset == 2), on the incremented counter
reset_limit_reached(reset) == reset = 2

\* A handler that takes the room left to be one byte less than buf (not the code's)
handler_start_short(t) ==
    /\ running
    /\ th[t].pc = "start"
    /\ th' = [th EXCEPT ![t].fd = sfd,
                        ![t].bytes_read = 0,
                        ![t].left = BufSize - 1,
                        ![t].success = 0,
                        ![t].reset = 0,
                        ![t].state = "ACCUMULATING",
                        ![t].pc = "total_load"]
    /\ UNCHANGED <<mpc, sfd, nconn, nthreads, calls_total, calls_success,
                   log_to_file, report, conn, fnvars>>

\* int fd = *fdptr and the other locals
handler_start(t) ==
    /\ running
    /\ th[t].pc = "start"
    /\ th' = [th EXCEPT ![t].fd = sfd,
                        ![t].bytes_read = 0,
                        ![t].left = BufSize,
                        ![t].success = 0,
                        ![t].reset = 0,
                        ![t].state = "ACCUMULATING",
                        ![t].pc = "total_load"]
    /\ UNCHANGED <<mpc, sfd, nconn, nthreads, calls_total, calls_success,
                   log_to_file, report, conn, fnvars>>

\* ++calls_total, the load
handler_total_load(t) ==
    /\ running
    /\ th[t].pc = "total_load"
    /\ th' = [th EXCEPT ![t].reg = calls_total, ![t].pc = "total_store"]
    /\ UNCHANGED <<mpc, sfd, nconn, nthreads, calls_total, calls_success,
                   log_to_file, report, conn, fnvars>>

\* ++calls_total, the store
handler_total_store(t) ==
    /\ running
    /\ th[t].pc = "total_store"
    /\ calls_total' = th[t].reg + 1
    /\ th' = [th EXCEPT ![t].pc = "read"]
    /\ UNCHANGED <<mpc, sfd, nconn, nthreads, calls_success, log_to_file,
                   report, conn, fnvars>>

\* A loop body that looks for the corruption marker before it validates (not the code's)
loop_body_corruption_first(me, got) ==
    LET n    == Len(got)
        br   == me.bytes_read + n
        lf   == me.left - n
        raw  == me.buf \o got
        dd   == data_done(raw, br)
        base == [me EXCEPT !.rx = @ \o got,
                           !.since = @ \o got,
                           !.onebyte = @ /\ n = 1,
                           !.buf = raw,
                           !.bytes_read = br,
                           !.left = lf]
    IN  IF is_corrupted(raw, br)
        THEN IF reset_limit_reached(me.reset + 1)
             THEN [base EXCEPT !.reset = @ + 1, !.state = "ABORTED",
                               !.pc = "close"]
             ELSE [base EXCEPT !.reset = @ + 1,
                               !.discards = @ + 1,
                               !.since = <<>>,
                               !.buf = <<>>,
                               !.bytes_read = 0,
                               !.left = BufSize]
        ELSE IF dd.ret = 1
        THEN [base EXCEPT !.buf = dd.buf, !.success = 1, !.state = "SUCCESS",
                          !.pc = "close"]
        ELSE [base EXCEPT !.buf = dd.buf]

\* The thread's record after one pass of the loop body that read the bytes got
loop_body(me, got) ==
    LET n    == Len(got)
        br   == me.bytes_read + n
        lf   == me.left - n
        dd   == data_done(me.buf \o got, br)
        base == [me EXCEPT !.rx = @ \o got,
                           !.since = @ \o got,
                           !.onebyte = @ /\ n = 1,
                           !.buf = dd.buf,
                           !.bytes_read = br,
                           !.left = lf]
    IN  IF dd.ret = 1
        THEN [base EXCEPT !.success = 1, !.state = "SUCCESS", !.pc = "close"]
        ELSE IF is_corrupted(dd.buf, br)
        THEN IF reset_limit_reached(me.reset + 1)
             THEN [base EXCEPT !.reset = @ + 1, !.state = "ABORTED",
                               !.pc = "close"]
             ELSE [base EXCEPT !.reset = @ + 1,
                               !.discards = @ + 1,
                               !.since = <<>>,
                               !.buf = <<>>,
                               !.bytes_read = 0,
                               !.left = BufSize]
        ELSE base

\* A read that asks for left bytes, not left - 1 (not the code's)
handler_read_left(t, n) ==
    /\ running
    /\ th[t].pc = "read"
    /\ th[t].fd \in Conns
    /\ conn[th[t].fd].closes = 0
    /\ n \in 1..Min(Len(conn[th[t].fd].pending), th[t].left)
    /\ th' = [th EXCEPT ![t] = loop_body(@, SubSeq(conn[th[t].fd].pending, 1, n))]
    /\ conn' = [conn EXCEPT ![th[t].fd].pending =
                   SubSeq(@, n + 1, Len(@))]
    /\ UNCHANGED <<mpc, sfd, nconn, nthreads, calls_total, calls_success,
                   log_to_file, report, fnvars>>

\* read(fd, pos, left - 1) returns n > 0 bytes; then the rest of the loop body
handler_read(t, n) ==
    /\ running
    /\ th[t].pc = "read"
    /\ th[t].fd \in Conns
    /\ conn[th[t].fd].closes = 0
    /\ n \in 1..Min(Len(conn[th[t].fd].pending), th[t].left - 1)
    /\ th' = [th EXCEPT ![t] = loop_body(@, SubSeq(conn[th[t].fd].pending, 1, n))]
    /\ conn' = [conn EXCEPT ![th[t].fd].pending =
                   SubSeq(@, n + 1, Len(@))]
    /\ UNCHANGED <<mpc, sfd, nconn, nthreads, calls_total, calls_success,
                   log_to_file, report, fnvars>>

\* read returns res <= 0 (end of stream, an error, an interruption by a
\* signal, or no room left in buf): break
handler_read_end(t, eintr) ==
    /\ running
    /\ th[t].pc = "read"
    /\ th' = [th EXCEPT ![t].state = "CLOSED", ![t].intr = eintr,
                        ![t].pc = "close"]
    /\ UNCHANGED <<mpc, sfd, nconn, nthreads, calls_total, calls_success,
                   log_to_file, report, conn, fnvars>>

\* A handler that forgets the close on an unsuccessful exit (not the code's)
handler_close_unless_failed(t) ==
    /\ running
    /\ th[t].pc = "close"
    /\ th' = [th EXCEPT ![t].closes = @ + th[t].success, ![t].pc = "save"]
    /\ conn' = IF th[t].fd \in Conns /\ th[t].success = 1
               THEN [conn EXCEPT ![th[t].fd].closes = @ + 1]
               ELSE conn
    /\ UNCHANGED <<mpc, sfd, nconn, nthreads, calls_total, calls_success,
                   log_to_file, report, fnvars>>

\* close(fd)
handler_close(t) ==
    /\ running
    /\ th[t].pc = "close"
    /\ th' = [th EXCEPT ![t].closes = @ + 1, ![t].pc = "save"]
    /\ conn' = IF th[t].fd \in Conns
               THEN [conn EXCEPT ![th[t].fd].closes = @ + 1]
               ELSE conn
    /\ UNCHANGED <<mpc, sfd, nconn, nthreads, calls_total, calls_success,
                   log_to_file, report, fnvars>>

\* if (log_to_file) save_data(buf, bytes_read, success)
handler_save(t) ==
    /\ running
    /\ th[t].pc = "save"
    /\ th' = [th EXCEPT ![t].saved =
                            IF log_to_file
                            THEN save_data(th[t].buf, th[t].bytes_read, th[t].success)
                            ELSE NoSave,
                        ![t].pc = "success_load"]
    /\ UNCHANGED <<mpc, sfd, nconn, nthreads, calls_total, calls_success,
                   log_to_file, report, conn, fnvars>>

\* calls_success += success, the load
handler_success_load(t) ==
    /\ running
    /\ th[t].pc = "success_load"
    /\ th' = [th EXCEPT ![t].reg = calls_success, ![t].pc = "success_store"]
    /\ UNCHANGED <<mpc, sfd, nconn, nthreads, calls_total, calls_success,
                   log_to_file, report, conn, fnvars>>

\* calls_success += success, the store; return NULL
handler_success_store(t) ==
    /\ running
    /\ th[t].pc = "success_store"
    /\ calls_success' = th[t].reg + th[t].success
    /\ th' = [th EXCEPT ![t].pc = "done"]
    /\ UNCHANGED <<mpc, sfd, nconn, nthreads, calls_total, log_to_file,
                   report, conn, fnvars>>

---------------------------------------------------------------------------
(* The peers *)

\* <<0, 0, 0>> at offset 40 of 55 bytes that hold no delimiter
NoiseWithMarker == Overwrite(JunkOfLen(DATA_LENGTH + 1), 40, <<0, 0, 0>>)

\* A printout cut short by the line, then the trailer
CutPrintout == RealPre \o SubSeq(ValidPayload, 1, 40) \o Trailer

\* The segments a peer sends in SessionSpec
SessionSegs ==
    { RealPre \o ValidPayload \o Trailer,
      ValidPayload,
      CutPrintout,
      NoiseWithMarker,
      JunkOfLen(20),
      JunkOfLen(BufSize \div 2) }

\* A printout of which the line lost the delimiter at offset 11, which
\* autocorrect can restore, and those at offsets 24 and 29 together with the
\* digit before each, which it cannot
GarbledPrintout ==
    RealPre
    \o Overwrite(Overwrite(Overwrite(ValidPayload, 11, <<120>>),
                           23, <<120, 120>>),
                 28, <<120, 120>>)
    \o Trailer

\* A printout with every delimiter in place and one digit of the number lost
MisreadPrintout == RealPre \o Overwrite(ValidPayload, 5, <<120>>) \o Trailer

\* The segments a peer sends over a noisy line
NoisySegs ==
    { RealPre \o ValidPayload \o Trailer,
      GarbledPrintout,
      MisreadPrintout,
      NoiseWithMarker,
      JunkOfLen(20) }

\* The segments of a peer that sends more than buf can hold
FillSegs ==
    { JunkOfLen(BufSize \div 2),
      NoiseWithMarker,
      ValidPayload }

\* The segments a peer sends in Spec
ConcSegs == { ValidPayload, JunkOfLen(20) }

\* The peer of connection c sends segment seg
peer_send(c, seg, maxsegs) ==
    /\ running
    /\ c \in 1..nconn
    /\ conn[c].closes = 0
    /\ conn[c].pending = <<>>
    /\ conn[c].sent < maxsegs
    /\ conn' = [conn EXCEPT ![c].pending = seg, ![c].sent = @ + 1]
    /\ UNCHANGED <<mpc, sfd, nconn, nthreads, calls_total, calls_success,
                   log_to_file, report, th, fnvars>>

\* A read that returns all that is there, as far as buf has room
ReadAll(t) ==
    IF th[t].fd \in Conns
    THEN {Min(Len(conn[th[t].fd].pending), th[t].left - 1)}
    ELSE {}

\* The sizes a read may return in SessionSpec: one byte, or all that is there
ReadSizes(t) == {1} \cup ReadAll(t)

---------------------------------------------------------------------------
(* Specifications *)

FnOff ==
    /\ fin = <<>>
    /\ fmut = 0
    /\ fpc = "off"
    /\ fout = [ret |-> 0, buf |-> <<>>, prev |-> <<>>]

Init ==
    /\ mpc = "accept"
    /\ sfd = 0
    /\ nconn = 0
    /\ nthreads = 0
    /\ calls_total = 0
    /\ calls_success = 0
    /\ log_to_file \in BOOLEAN
    /\ report = <<>>
    /\ th = [t \in Threads |-> IdleThread]
    /\ conn = [c \in Conns |-> IdleConn]
    /\ FnOff

Next ==
    \/ main_accept
    \/ main_accept_eintr
    \/ main_accept_fail
    \/ main_detach_fail
    \/ main_create
    \/ main_create_fail
    \/ main_usleep
    \/ sigint_handler
    \/ \E c \in Conns, seg \in ConcSegs : peer_send(c, seg, 1)
    \/ \E t \in Threads :
          \/ handler_start(t)
          \/ handler_total_load(t)
          \/ handler_total_store(t)
          \/ \E n \in ReadAll(t) : handler_read(t, n)
          \/ \E eintr \in BOOLEAN : handler_read_end(t, eintr)
          \/ handler_close(t)
          \/ handler_save(t)
          \/ handler_success_load(t)
          \/ handler_success_store(t)

Spec == Init /\ [][Next]_vars

\* main() and its threads with peers that send nothing and hang up: what the
\* accept loop does to the sessions in flight
AcceptNext ==
    \/ main_accept
    \/ main_accept_eintr
    \/ main_accept_fail
    \/ main_detach_fail
    \/ main_create
    \/ main_create_fail
    \/ main_usleep
    \/ sigint_handler
    \/ \E t \in Threads :
          \/ handler_start(t)
          \/ handler_total_load(t)
          \/ handler_total_store(t)
          \/ handler_read_end(t, FALSE)
          \/ handler_close(t)
          \/ handler_save(t)
          \/ handler_success_load(t)
          \/ handler_success_store(t)

AcceptSpec == Init /\ [][AcceptNext]_vars

\* One session: the first connection has been accepted, its thread created,
\* and main() is back in accept(), where no other connection arrives
SessionInit ==
    /\ mpc = "accept"
    /\ sfd = 1
    /\ nconn = 1
    /\ nthreads = 1
    /\ calls_total = 0
    /\ calls_success = 0
    /\ log_to_file \in BOOLEAN
    /\ report = <<>>
    /\ th = [t \in Threads |->
                IF t = 1 THEN [IdleThread EXCEPT !.pc = "start", !.conn_of = 1]
                ELSE IdleThread]
    /\ conn = [c \in Conns |-> IdleConn]
    /\ FnOff

SessionNext ==
    \/ \E seg \in SessionSegs : peer_send(1, seg, MaxSegs)
    \/ handler_start(1)
    \/ handler_total_load(1)
    \/ handler_total_store(1)
    \/ \E n \in ReadSizes(1) : handler_read(1, n)
    \/ \E eintr \in BOOLEAN : handler_read_end(1, eintr)
    \/ handler_close(1)
    \/ handler_save(1)
    \/ handler_success_load(1)
    \/ handler_success_store(1)

SessionSpec == SessionInit /\ [][SessionNext]_vars

\* One session on a line that garbles the printouts
NoisyNext ==
    \/ \E seg \in NoisySegs : peer_send(1, seg, MaxSegs)
    \/ handler_start(1)
    \/ handler_total_load(1)
    \/ handler_total_store(1)
    \/ \E n \in ReadSizes(1) : handler_read(1, n)
    \/ \E eintr \in BOOLEAN : handler_read_end(1, eintr)
    \/ handler_close(1)
    \/ handler_save(1)
    \/ handler_success_load(1)
    \/ handler_success_store(1)

NoisySessionSpec == SessionInit /\ [][NoisyNext]_vars

\* One session whose peer sends until buf is full
FillNext ==
    \/ \E seg \in FillSegs : peer_send(1, seg, MaxSegs)
    \/ handler_start(1)
    \/ handler_total_load(1)
    \/ handler_total_store(1)
    \/ \E n \in ReadSizes(1) : handler_read(1, n)
    \/ \E eintr \in BOOLEAN : handler_read_end(1, eintr)
    \/ handler_close(1)
    \/ handler_save(1)
    \/ handler_success_load(1)
    \/ handler_success_store(1)

\* read returns res <= 0 in thread t
read_returns_nothing(t) == \E eintr \in BOOLEAN : handler_read_end(t, eintr)

\* The thread is scheduled, and its read returns in the end with res <= 0:
\* buf has no room left, or the peer, which has no more to send, hangs up
FillSpec ==
    /\ SessionInit
    /\ [][FillNext]_vars
    /\ WF_vars(handler_start(1))
    /\ WF_vars(handler_total_load(1))
    /\ WF_vars(handler_total_store(1))
    /\ WF_vars(read_returns_nothing(1))

---------------------------------------------------------------------------
(* ValidatorSpec: data_done, autocorrect and the corruption check applied  *)
(* to each buffer of FnInputs                                              *)

ProcOff ==
    /\ mpc = "exited"
    /\ sfd = 0
    /\ nconn = 0
    /\ nthreads = 0
    /\ calls_total = 0
    /\ calls_success = 0
    /\ log_to_file = FALSE
    /\ report = <<>>
    /\ th = [t \in Threads |-> IdleThread]
    /\ conn = [c \in Conns |-> IdleConn]

FnInit ==
    /\ ProcOff
    /\ \/ fin \in MutBases /\ fmut = MaxMut
       \/ fin \in FnInputs /\ fmut = 0
    /\ fpc = "input"
    /\ fout = [ret |-> 0, buf |-> fin, prev |-> fin]

\* The line replaces byte i of the input by b
fn_garble(i, b) ==
    /\ fpc = "input"
    /\ fmut > 0
    /\ i \in 1..Len(fin)
    /\ fin[i] # b
    /\ fin' = [fin EXCEPT ![i] = b]
    /\ fmut' = fmut - 1
    /\ fout' = [ret |-> 0, buf |-> fin', prev |-> fin']
    /\ UNCHANGED <<fpc, procvars>>

\* data_done(fin, length of fin)
fn_data_done ==
    /\ fpc = "input"
    /\ LET dd == data_done(fin, Len(fin))
       IN  fout' = [ret |-> dd.ret, buf |-> dd.buf, prev |-> fin]
    /\ fpc' = "data_done"
    /\ UNCHANGED <<fin, fmut, procvars>>

\* the corruption check on fin
fn_is_corrupted ==
    /\ fpc = "input"
    /\ fout' = [ret  |-> IF is_corrupted(fin, Len(fin)) THEN 1 ELSE 0,
                buf  |-> fin,
                prev |-> fin]
    /\ fpc' = "is_corrupted"
    /\ UNCHANGED <<fin, fmut, procvars>>

\* autocorrect(data), a first and a second time
fn_autocorrect ==
    /\ fpc \in {"input", "autocorrect1"}
    /\ fout' = [ret |-> 0, buf |-> autocorrect(fout.buf), prev |-> fout.buf]
    /\ fpc' = IF fpc = "input" THEN "autocorrect1" ELSE "autocorrect2"
    /\ UNCHANGED <<fin, fmut, procvars>>

FnNext ==
    \/ \E i \in 1..(Len(RealPre) + Len(ValidPayload) + Len(Trailer)), b \in Alphabet :
          fn_garble(i, b)
    \/ fn_data_done
    \/ fn_is_corrupted
    \/ fn_autocorrect

ValidatorSpec == FnInit /\ [][FnNext]_vars

---------------------------------------------------------------------------
(* Properties of the validator, the corruption check and autocorrect       *)
(* (ValidatorSpec)                                                         *)

\* The offsets, from the first delimiter, at which the layout has a '*'
StarOffsets == {11, 17, 24, 29, 33, 47, 53}

\* The index of the first '*' of b, 0 if it has none
FirstStar(b) == memchr(b, Star, Len(b))

\* The bytes of b from its first '*' to its end
FromFirstStar(b) == SubSeq(b, FirstStar(b), Len(b))

\* b holds, from its first '*', at least 54 bytes with a '*' at each offset of the layout
WellFormed(b) ==
    /\ FirstStar(b) # 0
    /\ Len(FromFirstStar(b)) >= 54
    /\ \A o \in StarOffsets : At(FromFirstStar(b), o) = 42

\* None of the first 54 bytes from the first '*' of b is NUL
NulFree(b) == \A o \in 0..53 : At(FromFirstStar(b), o) # 0

\* A corruption marker lies wholly inside C offsets [from, Len(b)) of b
MarkerAtOrAfter(b, from) ==
    \E i \in from..(Len(b) - 3) :
        <<At(b, i), At(b, i + 1), At(b, i + 2)>> \in {<<1, 0, 0>>, <<0, 0, 0>>}

\* C6 (as claimed): whenever data_done returns 1, each of the offsets 11, 17,
\* 24, 29, 33, 47 and 53 from the first '*' of the buffer, as autocorrect left
\* it, holds a '*'.
C6_ValidImpliesLayout ==
    (fpc = "data_done" /\ fout.ret = 1)
        => \A o \in StarOffsets : At(FromFirstStar(fout.buf), o) = 42

\* C7 (as claimed): data_done returns 1 for every buffer that holds a
\* well-formed structure of at least 54 bytes at its first '*'.
C7_WellFormedIsValid_Original ==
    (fpc = "data_done" /\ WellFormed(fin)) => fout.ret = 1

\* C7 (amended): data_done returns 1 for every buffer that holds a well-formed
\* structure of at least 54 bytes at its first '*', none of whose first 54
\* bytes is NUL, whatever bytes, and however many, precede that '*'.
C7_WellFormedNulFreeIsValid ==
    (fpc = "data_done" /\ WellFormed(fin) /\ NulFree(fin)) => fout.ret = 1

\* A well-formed, NUL-free structure preceded by a preamble that itself holds
\* NUL bytes has been validated.
C7_Witness ==
    /\ fpc = "data_done"
    /\ WellFormed(fin)
    /\ NulFree(fin)
    /\ FirstStar(fin) > 3
    /\ \E i \in 1..(FirstStar(fin) - 1) : fin[i] = 0
    /\ fout.ret = 1

\* C8: data_done returns 0 and leaves the buffer as it was whenever fewer
\* than 54 bytes lie between the first '*' and the end of the data, and
\* whenever the buffer holds no '*'.
C8_TooSmallIsIncomplete ==
    (fpc = "data_done"
        /\ (FirstStar(fin) = 0 \/ Len(fin) - (FirstStar(fin) - 1) < 54))
        => (fout.ret = 0 /\ fout.buf = fin)

\* A buffer of at least 54 bytes whose first '*' is followed by 52 bytes only,
\* with seven '*' among the 53, has been found incomplete.
C8_Witness ==
    /\ fpc = "data_done"
    /\ Len(fin) >= 54
    /\ FirstStar(fin) # 0
    /\ Len(FromFirstStar(fin)) = 53
    /\ Cardinality({i \in 1..53 : FromFirstStar(fin)[i] = 42}) >= 7
    /\ fout.ret = 0
    /\ fout.buf = fin

\* C9: for a buffer longer than 54 bytes the corruption check is true exactly
\* when 01 00 00 or 00 00 00 lies wholly inside offsets [30, length), and the
\* check leaves the buffer as it was.
C9_CorruptedIffMarkerFrom30 ==
    (fpc = "is_corrupted" /\ Len(fin) > 54)
        => /\ (fout.ret = 1) <=> MarkerAtOrAfter(fin, 30)
           /\ fout.buf = fin

\* A buffer longer than 54 bytes with a marker before offset 30 only has been
\* found not corrupted.
C9_Witness ==
    /\ fpc = "is_corrupted"
    /\ Len(fin) > 54
    /\ MarkerAtOrAfter(fin, 0)
    /\ ~MarkerAtOrAfter(fin, 30)
    /\ fout.ret = 0

\* C10: autocorrect applied a second time changes nothing.
C10_AutocorrectIdempotent ==
    (fpc = "autocorrect2") => fout.buf = fout.prev

\* A second pass has run on a buffer that the first pass changed.
C10_Witness ==
    /\ fpc = "autocorrect2"
    /\ fout.buf # fin
    /\ fout.buf = fout.prev

\* The right neighbour x justifies a rewrite at offset o
RightJustifies(o, x) ==
    \/ o = 53
    \/ o = 17 /\ x = 68
    \/ o \notin {17, 53} /\ x \in 48..57

\* new is old but for bytes that are now '*', stand at one of the seven
\* offsets from C offset base, differed from '*' and had a digit to their left
\* and a justifying byte to their right
OnlyJustifiedRewrites(old, new, base) ==
    /\ Len(new) = Len(old)
    /\ \A i \in 0..(Len(old) - 1) :
          At(new, i) # At(old, i)
              => /\ i - base \in StarOffsets
                 /\ At(new, i) = 42
                 /\ At(old, i - 1) \in 48..57
                 /\ RightJustifies(i - base, At(old, i + 1))

\* C17: autocorrect, applied to a string and applied by data_done from the
\* first '*' of a buffer, leaves the length and every byte as they were, but
\* for bytes at the offsets 11, 17, 24, 29, 33, 47 and 53 that differed from
\* '*', had a digit to their left and a digit (at 17 a 'D', at 53 anything) to
\* their right, which are now '*'.
C17_AutocorrectFrame ==
    /\ fpc = "autocorrect1" => OnlyJustifiedRewrites(fin, fout.buf, 0)
    /\ fpc = "data_done"
          => OnlyJustifiedRewrites(fin, fout.buf, FirstStar(fin) - 1)

\* autocorrect has restored some delimiters of a string and has left alone
\* one whose left neighbour is not a digit.
C17_Witness ==
    /\ fpc = "autocorrect1"
    /\ fout.buf # fin
    /\ \E o \in StarOffsets :
          /\ At(fin, o) # 42
          /\ At(fin, o - 1) \notin 48..57
          /\ RightJustifies(o, At(fin, o + 1))
          /\ At(fout.buf, o) = At(fin, o)

---------------------------------------------------------------------------
(* Properties of a session (SessionSpec)                                   *)

Terminal == {"SUCCESS", "ABORTED", "CLOSED"}

\* The positions of handler() after its loop and after its close(fd)
AfterClose == {"save", "success_load", "success_store", "done"}

\* C1: the reset counter is 0, 1 or 2; the session is ABORTED exactly when the
\* counter is 2, and then without success; the buffer is discarded on the
\* first corruption only, so an ABORTED session has seen two corruptions, and
\* a session with one corruption goes on.
C1_AbortedIffTwoResets ==
    \A t \in Threads :
        /\ th[t].reset \in {0, 1, 2}
        /\ (th[t].state = "ABORTED") <=> (th[t].reset = 2)
        /\ th[t].state = "ABORTED" => th[t].success = 0
        /\ th[t].discards = (IF th[t].reset = 0 THEN 0 ELSE 1)
        /\ (th[t].state = "ABORTED" /\ th[t].saved # NoSave)
              => th[t].saved.success = 0

\* A session has ended ABORTED and has handed its buffer over.
C1_Witness ==
    \E t \in Threads :
        /\ th[t].state = "ABORTED"
        /\ th[t].reset = 2
        /\ th[t].pc = "done"
        /\ th[t].saved # NoSave

C3_ClosedOnceBeforeSave ==
    \A t \in Threads :
        /\ th[t].pc \in AfterClose => th[t].closes = 1
        /\ th[t].pc \notin AfterClose => th[t].closes = 0
        /\ th[t].saved # NoSave => th[t].closes = 1
        /\ th[t].state \in Terminal <=> th[t].pc \in AfterClose \cup {"close"}
        /\ (th[t].pc = "done" /\ th[t].fd \in Conns)
              => conn[th[t].fd].closes >= 1

\* A session that ended CLOSED with bytes in its buffer has closed its
\* descriptor once and has handed the buffer over.
C3_Witness ==
    \E t \in Threads :
        /\ th[t].pc = "done"
        /\ th[t].state = "CLOSED"
        /\ th[t].bytes_read > 0
        /\ th[t].closes = 1
        /\ conn[th[t].fd].closes = 1
        /\ th[t].saved # NoSave

\* Index i of b is one of the offsets, from the first '*' of b, that autocorrect may rewrite
Rewritable(b, i) ==
    /\ FirstStar(b) # 0
    /\ Len(FromFirstStar(b)) > DATA_LENGTH
    /\ i - FirstStar(b) \in StarOffsets

\* C13 (as claimed): a session that ended CLOSED hands over, without success,
\* exactly the bytes it received since it last discarded its buffer.
C13_ClosedHandsOverReceived_Original ==
    \A t \in Threads :
        (th[t].state = "CLOSED" /\ th[t].saved # NoSave)
            => /\ th[t].saved.success = 0
               /\ th[t].saved.written = th[t].since

\* C13 (amended): a session that ended CLOSED has success 0 and hands over,
\* without success, as many bytes as it received since it last discarded its
\* buffer, each of them the byte received, but for a '*' that autocorrect
\* wrote at one of its seven offsets from the first '*' once more than 54
\* bytes had come from there on.
C13_ClosedHandsOverReceived ==
    \A t \in Threads :
        th[t].state = "CLOSED"
            => /\ th[t].success = 0
               /\ th[t].saved # NoSave
                     => /\ th[t].saved.success = 0
                        /\ th[t].saved.len = Len(th[t].since)
                        /\ Len(th[t].saved.written) = Len(th[t].since)
                        /\ \A i \in 1..Len(th[t].since) :
                              \/ th[t].saved.written[i] = th[t].since[i]
                              \/ /\ th[t].saved.written[i] = Star
                                 /\ Rewritable(th[t].since, i)

\* A session that discarded its buffer once and was then closed by its peer
\* has handed over the 20 bytes it received after the discard.
C13_Witness ==
    \E t \in Threads :
        /\ th[t].state = "CLOSED"
        /\ th[t].discards = 1
        /\ th[t].saved # NoSave
        /\ th[t].saved.len = 20
        /\ th[t].saved.written = th[t].since
        /\ Len(th[t].rx) > 20

\* C14 (as claimed): whatever is handed over with success holds a '*', so
\* that the assertion of save_data holds, and the identifier of the file name
\* is the ten bytes after the first '*', every one of them a digit.
C14_SuccessIdIsTenDigits ==
    \A t \in Threads :
        (th[t].saved # NoSave /\ th[t].saved.success = 1)
            => /\ th[t].saved.assert_ok
               /\ FirstStar(th[t].saved.written) # 0
               /\ th[t].saved.id =
                     SubSeq(th[t].saved.written,
                            FirstStar(th[t].saved.written) + 1,
                            FirstStar(th[t].saved.written) + IdLen)
               /\ \A i \in 1..Len(th[t].saved.id) : isdigit(th[t].saved.id[i])

C16_ValidationBeforeCorruption ==
    [][\A t \in Threads :
          LET got == SubSeq(th'[t].rx, Len(th[t].rx) + 1, Len(th'[t].rx))
              s   == th[t].since \o got
          IN  Len(got) > 0
                => /\ (WellFormed(s) /\ NulFree(s))
                        => /\ th'[t].state = "SUCCESS"
                           /\ th'[t].success = 1
                   /\ th'[t].state = "SUCCESS"
                        => /\ th'[t].reset = th[t].reset
                           /\ th'[t].discards = th[t].discards
                           /\ th'[t].bytes_read = Len(s)
                           /\ th'[t].since = s]_vars

\* A session has succeeded on a buffer that holds, after the printout, the
\* marker 01 00 00, and has counted no corruption.
C16_Witness ==
    \E t \in Threads :
        /\ th[t].state = "SUCCESS"
        /\ th[t].bytes_read > DATA_LENGTH
        /\ MarkerAtOrAfter(th[t].buf, SkipFirst)
        /\ is_corrupted(th[t].buf, th[t].bytes_read)
        /\ th[t].reset = 0
        /\ th[t].pc = "done"

\* C18: a session takes in at most 511 bytes between two discards, and
\* discards once at most, so at most two fills of buf in all; with buf full
\* the only thing its read does is return nothing, which ends it CLOSED; and
\* a session that is scheduled and whose reads return ends in a terminal
\* state.
C18_SessionTerminates ==
    /\ [](\A t \in Threads :
            /\ Len(th[t].since) <= BufSize - 1
            /\ Len(th[t].rx) - Len(th[t].since) <= BufSize - 1
            /\ th[t].discards <= 1
            /\ th[t].discards = 0 => th[t].rx = th[t].since)
    /\ [][\A t \in Threads :
            (th[t].pc = "read" /\ th[t].left = 1 /\ th'[t] # th[t])
                => /\ th'[t].state = "CLOSED"
                   /\ th'[t].pc = "close"
                   /\ th'[t].rx = th[t].rx]_vars
    /\ <>(th[1].state \in Terminal)

\* A session whose buffer was filled to its 511 bytes, with more to come from
\* the peer and neither a payload nor a marker in it, has ended CLOSED.
C18_Witness ==
    \E t \in Threads :
        /\ th[t].state = "CLOSED"
        /\ th[t].bytes_read = BufSize - 1
        /\ th[t].left = 1
        /\ th[t].reset = 0
        /\ th[t].fd \in Conns
        /\ conn[th[t].fd].pending # <<>>
        /\ th[t].pc = "done"

\* C19: in a session that has set up its locals, the fill length and the
\* room left add up to 512, the room left is at least 1 and the fill length
\* at most 511, buf holds fill length bytes, so that the NUL written after
\* them is inside buf, and no more than 511 bytes are handed over.
C19_FillPlusLeftIsSize ==
    \A t \in Threads :
        th[t].pc \notin {"idle", "start"}
            => /\ th[t].bytes_read + th[t].left = BufSize
               /\ th[t].left >= 1
               /\ th[t].bytes_read \in 0..(BufSize - 1)
               /\ Len(th[t].buf) = th[t].bytes_read
               /\ th[t].saved # NoSave
                     => /\ th[t].saved.len = th[t].bytes_read
                        /\ th[t].saved.len <= BufSize - 1

\* A session has filled buf to its last free byte and has handed over 511
\* bytes.
C19_Witness ==
    \E t \in Threads :
        /\ th[t].bytes_read = BufSize - 1
        /\ th[t].left = 1
        /\ th[t].saved # NoSave
        /\ th[t].saved.len = BufSize - 1
        /\ Len(th[t].saved.written) = BufSize - 1

\* C11 (as claimed): a read interrupted by a signal does not end the session:
\* the session that met one is still ACCUMULATING and still at its read.
C11_InterruptedReadRetried ==
    \A t \in Threads :
        th[t].intr => (th[t].state = "ACCUMULATING" /\ th[t].pc = "read")

---------------------------------------------------------------------------
(* Properties of the process (Spec)                                        *)

\* Thread t has dereferenced its argument
Started(t) == th[t].pc \notin {"idle", "start"}

\* C4 (as claimed): once every started session has finished, calls_total is
\* the number of sessions started and calls_success the number that ended in
\* SUCCESS.
C4_NoIncrementLost ==
    (nthreads > 0 /\ \A t \in 1..nthreads : th[t].pc = "done")
        => /\ calls_total = nthreads
           /\ calls_success =
                 Cardinality({t \in 1..nthreads : th[t].state = "SUCCESS"})

\* C5 (as claimed): every session works on the connection that was accepted
\* for it, and no two sessions work on the same descriptor.
C5_OneSessionPerConnection ==
    \A t \in 1..nthreads :
        Started(t)
            => /\ th[t].fd = th[t].conn_of
               /\ \A u \in 1..nthreads :
                     (u # t /\ Started(u)) => th[u].fd # th[t].fd

\* C20 (as claimed): calls_success is never greater than calls_total, neither
\* in the counters nor in the report that sigint_handler prints.
C20_SuccessNotAboveTotal ==
    /\ calls_success <= calls_total
    /\ report # <<>> => report[2] <= report[1]

\* C12: an accept interrupted by a signal starts no session and leaves main
\* in its accept loop, no session being touched by it; any other failure of
\* accept ends the process without a report; and once the process has ended
\* no connection is accepted, no session takes a step and no counter moves.
C12_AcceptFailure ==
    [][ /\ (mpc = "accept" /\ sfd # -1 /\ sfd' = -1)
            => /\ mpc' \in {"accept", "exited"}
               /\ report' = report
               /\ UNCHANGED <<nconn, nthreads, th, conn, calls_total,
                              calls_success>>
        /\ mpc = "exited" => UNCHANGED procvars ]_vars

\* accept has failed for good after an interrupted accept, whose -1 the first
\* thread read, and after a second connection, whose session is left blocked
\* in its read.
C12_Witness ==
    /\ mpc = "exited"
    /\ report = <<>>
    /\ nconn = 2
    /\ th[1].fd = -1
    /\ th[2].pc = "read"
    /\ th[2].fd = 2
    /\ th[2].state = "ACCUMULATING"

===========================================================================
